---- MODULE Spec2Model ----
(***************************************************************************)
(* Banking-stage errors tracking sidecar: the event loop of main.rs, the   *)
(* delayed Block Processor task it spawns, and the transaction-infos saver *)
(* (eviction job) of postgres.rs, over the two shared DashMaps, the        *)
(* AtomicU64 watermark and the unbounded block channel.                    *)
(*                                                                         *)
(* Time is a discrete clock of seconds.  A tokio task is a program counter *)
(* plus its locals; every DashMap call (get, get_mut, insert, remove) and  *)
(* every atomic load/store is one step, and every .await separates steps.  *)
(* A panic inside a spawned task ends that task only; a panic of main ends *)
(* the process.                                                            *)
(*                                                                         *)
(* transaction_info.rs and block_info.rs are not part of the sources at    *)
(* hand: TransactionInfo_new, add_notification, add_transaction and        *)
(* BlockInfo_new follow the specification's contract (sections 3 and 4.1). *)
(*                                                                         *)
(* The Transaction Index is one DashMap shared by main.rs and postgres.rs. *)
(* postgres.rs:247 declares its values as BTreeMap<u64, TransactionInfo>,  *)
(* a map from slot to TransactionInfo, and reads them as such (258, 269);  *)
(* main.rs:53 keeps one TransactionInfo per signature.  The index holds    *)
(* slot maps here: the entry main.rs creates is the slot map with the one  *)
(* key first_notification_slot (SlotMapOf), main.rs updates the            *)
(* TransactionInfos of the entry, and everything the saver does is defined *)
(* for any slot map; every state explored holds the one-slot maps that     *)
(* main.rs builds.                                                         *)
(*                                                                         *)
(* Both maps are DashMaps.  A guard (the RefMut of get_mut, the Ref of     *)
(* get, the iterator's shard guard) is taken and dropped by steps of the   *)
(* task that holds it, and while it is held every other task's operation   *)
(* on that map waits.                                                      *)
(*                                                                         *)
(* A slot is a u64.  The integers here are narrower than 2^64, so a slot v *)
(* of the upper range is written as the negative number v - 2^64; ULess,   *)
(* WrappingAdd and AddOverflows are u64 order and addition on that form.   *)
(***************************************************************************)
EXTENDS Integers, Sequences, FiniteSets, TLC

\* ---------------------------------------------------------------- bounds
MaxSig == 1
MaxCause == 1
MaxLowSlot == 0
MaxHighSlot == 1
MaxTxs == 1
MaxBlocks == 2
MaxNotifs == 2
MaxHolds == 2
MaxFine == 0
MaxEntries == 9
MaxScenarioEntries == 3
MaxWrapEntries == 2

\* ------------------------------------------------------ program constants
HoldSecs == 30
SaverPeriodSecs == 60
LagWindow == 300
BatchSize == 8

\* ----------------------------------------------------------- input domains
Sigs == 1..MaxSig
\* Option<error cause>: 0 is None, 1..MaxCause are distinct TransactionErrors
NoError == 0
Causes == 1..MaxCause
\* slots on both sides of the lag window: the low ones and those more than
\* LagWindow ahead of slot 0
Slots == (0..MaxLowSlot) \cup {LagWindow + k : k \in 1..MaxHighSlot}
\* SubscribeUpdateTransaction.transaction is an Option: 0 is None
NoTx == 0
\* a transaction whose signatures are empty or whose first signature is not
\* 64 bytes long
BadSignature == -1
TxVals == {NoTx, BadSignature} \cup Sigs
TxSeqs == UNION {[1..n -> TxVals] : n \in 0..MaxTxs}
\* Option<i64> None
NoCount == -1
\* the instants the clock visits: up to MaxFine seconds after each multiple of
\* the hold duration
Instants == {k * HoldSecs + f : k \in 0..MaxHolds, f \in 0..MaxFine}
LastInstant == MaxHolds * HoldSecs + MaxFine

VARIABLES
    now,            \* tokio clock, seconds since start
    main_pc,        \* event loop: "next" | "upsert" | "panicked" | "ended"
    transaction,    \* the notification being handled (main.rs:137)
    map_of_infos,   \* DashMap<String, BTreeMap<u64, TransactionInfo>>
    slot_by_errors, \* DashMap<u64, u64>
    slot,           \* Arc<AtomicU64>: the slot watermark
    chan,           \* unbounded mpsc channel of (Instant, block)
    bp_pc,          \* Block Processor: "recv" | "sleep" | "txs" | "tx_held" | "count_held" | "save" | "store" | "remove" | "panicked"
    bp_cur,         \* (wait_until, block) taken from the channel
    bp_i,           \* index of the for loop over block.transactions
    block_info,     \* the BlockInfo built for bp_cur
    ev_pc,          \* saver: "sleep" | "scan" | "visit" | "remove" | "save" | "panicked"
    ev_wake,        \* deadline of the saver's sleep
    ev_slot,        \* the saver's local copy of the watermark
    scanned,        \* keys whose place the scan's iterator has passed
    txs_to_store,   \* keys selected by the scan
    ev_i,           \* position in txs_to_store during removal
    data,           \* the TransactionInfos of the removed slot maps, in order
    batches_left,   \* batches of this tick not yet handed to the sink
    \* ---- the Storage Sink and observation (history) variables
    blocks_sink,    \* every save_block call: [info, id, ok]
    txs_sink,       \* every save_banking_transaction_results call: [batch, ok]
    n_blocks,       \* BANKING_STAGE_BLOCKS_COUNTER: blocks received
    events_counter, \* BANKING_STAGE_ERROR_EVENT_COUNT
    banking_errors, \* BANKING_STAGE_ERROR_COUNT
    recorded,       \* per slot: notifications that updated slot_by_errors
    notified,       \* per signature: notifications upserted since the entry was created
    first_seen,     \* per signature: slot of the first notification received or inclusion processed
    started,        \* block ids in the order their processing started
    finished,       \* block ids in the order their processing completed
    evicted,        \* every TransactionInfo removed by the saver: [info, wm, first]
    early           \* per slot: notifications received while no block of the slot had reached its release time

vars == <<now, main_pc, transaction, map_of_infos, slot_by_errors, slot, chan,
          bp_pc, bp_cur, bp_i, block_info, ev_pc, ev_wake, ev_slot,
          scanned, txs_to_store, ev_i, data, batches_left, blocks_sink, txs_sink,
          n_blocks, events_counter, banking_errors, recorded, notified,
          first_seen, started, finished, evicted, early>>

main_vars == <<main_pc, transaction>>
bp_vars == <<bp_pc, bp_cur, bp_i, block_info>>
ev_vars == <<ev_pc, ev_wake, ev_slot, scanned, txs_to_store, ev_i, data,
             batches_left>>

\* ------------------------------------------------------------ small helpers
EmptyMap == [x \in {} |-> 0]
NoSlot == -1
NoNotif == [signature |-> 0, slot |-> 0, error |-> NoError]
NoBlock == [wait_until |-> 0,
            block |-> [id |-> 0, slot |-> 0, transactions |-> <<>>, arrived |-> 0]]
NoInfo == [slot |-> 0, banking_stage_errors |-> NoCount, processed_transactions |-> 0]

RECURSIVE SumOver(_, _)
SumOver(f, S) ==
    IF S = {} THEN 0
    ELSE LET k == CHOOSE x \in S : TRUE IN f[k] + SumOver(f, S \ {k})

\* total of the occurrence counts of an errors map
ErrorTotal(errors) == SumOver(errors, DOMAIN errors)

\* ----------------------------------------- TransactionInfo (from the spec)
\* TransactionInfo::new: a fresh aggregate for the notification's signature,
\* first_notification_slot = the notification's slot, nothing counted yet.
TransactionInfo_new(n) ==
    [signature |-> n.signature,
     errors |-> EmptyMap,
     is_executed |-> FALSE,
     processed_slot |-> NoSlot,
     first_notification_slot |-> n.slot]

\* TransactionInfo::add_notification: one more occurrence of (error, slot);
\* first_notification_slot is left alone.
add_notification(info, n) ==
    IF n.error = NoError THEN info
    ELSE LET key == <<n.error, n.slot>> IN
         [info EXCEPT !.errors =
             IF key \in DOMAIN info.errors
             THEN [info.errors EXCEPT ![key] = @ + 1]
             ELSE (key :> 1) @@ info.errors]

\* TransactionInfo::add_transaction: the inclusion sets the execution flag and
\* processed_slot; errors and first_notification_slot are left alone.
add_transaction(info, block_slot) ==
    [info EXCEPT !.is_executed = TRUE, !.processed_slot = block_slot]

\* BlockInfo::new: the record derived from the block and the tally's count.
BlockInfo_new(block, banking_stage_error_count) ==
    [slot |-> block.slot,
     banking_stage_errors |-> banking_stage_error_count,
     processed_transactions |-> Len(block.transactions)]

\* Option::unwrap_or(0) of main.rs:116
UnwrapOr0(c) == IF c = NoCount THEN 0 ELSE c

\* ------------------------------------------------------- u64 and slot maps
\* a < b between two u64 slots: the negative numbers are the upper range
ULess(a, b) == IF (a < 0) = (b < 0) THEN a < b ELSE b < 0

\* u64 addition of a small d modulo 2^64: on a slot of the upper range the sum
\* passes 2^64 exactly when it is no longer negative
WrappingAdd(a, d) == a + d
AddOverflows(a, d) == a < 0 /\ a + d >= 0

\* the entry main.rs:157-159 inserts, as the slot map postgres.rs:247 reads
SlotMapOf(info) == (info.first_notification_slot :> info)

\* BTreeMap::keys().next(): the smallest key of a non-empty slot map
FirstKey(slot_map) ==
    CHOOSE s \in DOMAIN slot_map :
        \A t \in DOMAIN slot_map : s = t \/ ULess(s, t)

\* postgres.rs:270: tree.iter().map(|(_, info)| info).cloned().collect_vec():
\* the TransactionInfos of a slot map in the order of their keys
RECURSIVE InfosOf(_)
InfosOf(slot_map) ==
    IF DOMAIN slot_map = {} THEN <<>>
    ELSE LET s == FirstKey(slot_map) IN
         <<slot_map[s]>> \o
             InfosOf([t \in DOMAIN slot_map \ {s} |-> slot_map[t]])

\* --------------------------------------------------------------- event loop
\* a tally update that inserts 1 in both arms
RecordError_Overwrite(tally, s) ==
    IF s \in DOMAIN tally THEN [tally EXCEPT ![s] = 1]
    ELSE (s :> 1) @@ tally

\* main.rs:143-150: slot_by_errors.get_mut(slot) then += 1, or insert(slot, 1)
RecordError(tally, s) ==
    IF s \in DOMAIN tally THEN [tally EXCEPT ![s] = @ + 1]
    ELSE (s :> 1) @@ tally

\* an upsert whose None arm inserts the new entry without add_notification
UpsertEntry_NoFirstCount(m, n) ==
    IF n.signature \in DOMAIN m
    THEN [m EXCEPT ![n.signature] =
             [s \in DOMAIN @ |-> add_notification(@[s], n)]]
    ELSE (n.signature :> SlotMapOf(TransactionInfo_new(n))) @@ m

\* an upsert that rebuilds the entry from the notification at hand, keeping
\* only the errors of the entry it replaces
UpsertEntry_Rebuild(m, n) ==
    IF n.signature \in DOMAIN m /\ DOMAIN m[n.signature] # {}
    THEN [m EXCEPT ![n.signature] =
             SlotMapOf(add_notification(
                 [TransactionInfo_new(n) EXCEPT
                     !.errors = m[n.signature][FirstKey(m[n.signature])].errors],
                 n))]
    ELSE (n.signature :> SlotMapOf(add_notification(TransactionInfo_new(n), n))) @@ m

\* main.rs:151-160: map_of_infos.get_mut(sig) then add_notification, or
\* new + add_notification + insert.  The entry's TransactionInfo takes the
\* notification (an entry main.rs created holds exactly one).
UpsertEntry(m, n) ==
    IF n.signature \in DOMAIN m
    THEN [m EXCEPT ![n.signature] =
             [s \in DOMAIN @ |-> add_notification(@[s], n)]]
    ELSE (n.signature :> SlotMapOf(add_notification(TransactionInfo_new(n), n))) @@ m

\* main.rs:167: the release time stamped on an arriving block
ReleaseTime(t) == t + HoldSecs

\* the process runs until main panics or returns: either ends the runtime and
\* with it every spawned task, wherever it stands
Alive == main_pc \notin {"panicked", "ended"}

\* main.rs:128-134: an Err message or one without update_oneof, and main.rs:171
\* any other update, is skipped
SkipMessage ==
    /\ Alive /\ main_pc = "next"
    /\ UNCHANGED <<now, main_vars, map_of_infos, slot_by_errors, slot, chan,
                   bp_vars, ev_vars, blocks_sink, txs_sink, n_blocks,
                   events_counter, banking_errors, recorded, notified,
                   first_seen, started, finished, evicted, early>>

\* A DashMap guard (Ref, RefMut, the iterator's shard guard) locks a shard of
\* its map, and a shard can hold any key: while a task holds a guard on a map,
\* get, get_mut, insert, remove and the iterator of every other task wait at
\* that map.  A task that waits takes no step.

\* a Block Processor that keeps the Ref of slot_by_errors.get alive until the
\* BlockInfo is saved
BpGuards_AcrossSave(pc) ==
    IF pc = "tx_held" THEN {"index"}
    ELSE IF pc \in {"count_held", "save"} THEN {"tally"}
    ELSE {}

\* the DashMaps on which the Block Processor holds a guard at its program
\* counter: the RefMut of main.rs:108 from get_mut to the end of the if-let
\* block (110), the Ref of main.rs:113 from get to the end of the statement
\* (114)
BpGuards(pc) ==
    IF pc = "tx_held" THEN {"index"}
    ELSE IF pc = "count_held" THEN {"tally"}
    ELSE {}

\* the DashMaps on which the saver holds a guard at its program counter: the
\* iterator of postgres.rs:256 holds the guard of the shard it is in while the
\* loop body (257-261) runs; remove (269) returns owned values
EvGuards(pc) == IF pc = "visit" THEN {"index"} ELSE {}

\* the DashMaps the handler cannot enter
HeldByOthers == BpGuards(bp_pc) \cup EvGuards(ev_pc)

\* a handler without the test of main.rs:138
Ignored_Never(e) == FALSE

\* main.rs:138: transaction.error.is_none()
Ignored(e) == e = NoError

\* some block of slot s has reached its release time: one waiting in the
\* channel or held by the Block Processor with wait_until elapsed, or one whose
\* BlockInfo went to the sink earlier
ReleasePassed(s) ==
    \/ \E i \in DOMAIN chan : chan[i].block.slot = s /\ chan[i].wait_until <= now
    \/ bp_cur.block.id # 0 /\ bp_cur.block.slot = s /\ bp_cur.wait_until <= now
    \/ \E i \in DOMAIN blocks_sink :
          blocks_sink[i].info.slot = s /\ blocks_sink[i].id # bp_cur.block.id

\* main.rs:137-150: a BankingTransactionErrors update: skipped when the error
\* is None, otherwise counted, tallied per slot, and then upserted
RecvNotification(sig, s, e) ==
    /\ Alive /\ main_pc = "next"
    /\ IF Ignored(e)
       THEN UNCHANGED <<main_vars, slot_by_errors, events_counter, recorded,
                        first_seen, early>>
       ELSE /\ events_counter < MaxNotifs
            /\ "tally" \notin HeldByOthers
            /\ early' = [early EXCEPT ![s] =
                             IF ReleasePassed(s) THEN @ ELSE @ + 1]
            /\ events_counter' = events_counter + 1
            /\ slot_by_errors' = RecordError(slot_by_errors, s)
            /\ recorded' = [recorded EXCEPT ![s] = @ + 1]
            /\ first_seen' = [first_seen EXCEPT ![sig] =
                                 IF @ = NoSlot THEN s ELSE @]
            /\ transaction' = [signature |-> sig, slot |-> s, error |-> e]
            /\ main_pc' = "upsert"
    /\ UNCHANGED <<now, map_of_infos, slot, chan, bp_vars, ev_vars,
                   blocks_sink, txs_sink, n_blocks, banking_errors, notified,
                   started, finished, evicted>>

\* main.rs:151-160: the Transaction Index upsert of the notification at hand.
\* With an entry present the update runs under the get_mut guard; without one
\* get_mut returns None holding nothing and insert follows: no other task
\* inserts, and a lookup or removal that falls between the two finds no entry
\* just as it does before them, so the arm is one step.
UpsertNotification ==
    /\ Alive /\ main_pc = "upsert"
    /\ "index" \notin HeldByOthers
    /\ map_of_infos' = UpsertEntry(map_of_infos, transaction)
    /\ notified' = [notified EXCEPT ![transaction.signature] =
                       IF transaction.signature \in DOMAIN map_of_infos
                       THEN @ + 1 ELSE 1]
    /\ main_pc' = "next"
    /\ transaction' = NoNotif
    /\ UNCHANGED <<now, slot_by_errors, slot, chan, bp_vars, ev_vars,
                   blocks_sink, txs_sink, n_blocks, events_counter,
                   banking_errors, recorded, first_seen, started, finished,
                   evicted, early>>

\* main.rs:162-170: a Block update is stamped and sent to the Block Processor;
\* send fails once the receiver is gone, and expect() then panics main
RecvBlock(s, txs) ==
    /\ Alive /\ main_pc = "next"
    /\ n_blocks < MaxBlocks
    /\ ReleaseTime(now) <= LastInstant
    /\ n_blocks' = n_blocks + 1
    /\ IF bp_pc = "panicked"
       THEN /\ main_pc' = "panicked"
            /\ UNCHANGED <<chan, transaction>>
       ELSE /\ chan' = Append(chan,
                   [wait_until |-> ReleaseTime(now),
                    block |-> [id |-> n_blocks + 1, slot |-> s,
                               transactions |-> txs, arrived |-> now]])
            /\ UNCHANGED main_vars
    /\ UNCHANGED <<now, map_of_infos, slot_by_errors, slot, bp_vars, ev_vars,
                   blocks_sink, txs_sink, events_counter,
                   banking_errors, recorded, notified, first_seen, started,
                   finished, evicted, early>>

\* main.rs:127 and 174: the stream ends (next() yields None), the while loop
\* is left and main returns: the process ends with whatever is in the channel,
\* in the Block Processor's hold and in the index, none of it handed to the
\* sink
StreamEnd ==
    /\ Alive /\ main_pc = "next"
    /\ main_pc' = "ended"
    /\ UNCHANGED <<now, transaction, map_of_infos, slot_by_errors, slot, chan,
                   bp_vars, ev_vars, blocks_sink, txs_sink, n_blocks,
                   events_counter, banking_errors, recorded, notified,
                   first_seen, started, finished, evicted, early>>

\* every task is at an .await (or has ended): the event loop at the stream,
\* the Block Processor at the channel, its sleep or the sink, the saver at its
\* sleep or the sink
AllSuspended ==
    /\ main_pc = "next"
    /\ bp_pc \in {"recv", "sleep", "save", "panicked"}
    /\ ev_pc \in {"sleep", "save", "panicked"}

\* the tokio clock advances to the next instant; the code a task runs between
\* two awaits takes less than the clock's grain
Tick ==
    /\ Alive
    /\ AllSuspended
    /\ now < LastInstant
    /\ now' = CHOOSE i \in Instants : i > now /\ \A j \in Instants : j > now => i <= j
    /\ UNCHANGED <<main_vars, map_of_infos, slot_by_errors, slot, chan,
                   bp_vars, ev_vars, blocks_sink, txs_sink, n_blocks,
                   events_counter, banking_errors, recorded, notified,
                   first_seen, started, finished, evicted, early>>

\* ---------------------------------------------------------- Block Processor
\* a channel that hands over its newest item first
RecvFrom_Newest(ch) ==
    [item |-> ch[Len(ch)], rest |-> SubSeq(ch, 1, Len(ch) - 1)]

\* main.rs:95: recv() hands over the oldest item of the channel
RecvFrom(ch) == [item |-> Head(ch), rest |-> Tail(ch)]

\* a sleep that returns at once
SleepUntilDone_NoHold(wait_until, t) == TRUE

\* main.rs:102: sleep_until(wait_until) returns once the deadline is reached
SleepUntilDone(wait_until, t) == t >= wait_until

\* main.rs:112-114: slot_by_errors.get(slot).map(|x| *x as i64)
TallyGet(tally, s) == IF s \in DOMAIN tally THEN tally[s] ELSE NoCount

\* a processor that leaves the tally's entry in place
TallyRemove_Nothing(tally, s) == tally

\* main.rs:123: slot_by_errors.remove(slot)
TallyRemove(tally, s) == [k \in DOMAIN tally \ {s} |-> tally[k]]

\* main.rs:122: slot.store(block.slot, Relaxed)
StoreWatermark(old, block_slot) == block_slot

\* postgres.rs:208,226,227: save_block unwraps every sink result, so a failed
\* copy panics the calling task; it never returns Err to main.rs:119
AfterSaveBlock(ok) == IF ok THEN "store" ELSE "panicked"

\* an inclusion that creates a minimal entry for a signature the index lacks
IncludeEntry_Create(m, tx, block_slot) ==
    IF tx \in DOMAIN m
    THEN [m EXCEPT ![tx] =
             [s \in DOMAIN @ |-> add_transaction(@[s], block_slot)]]
    ELSE (tx :> SlotMapOf(add_transaction(
                   TransactionInfo_new([signature |-> tx, slot |-> block_slot,
                                        error |-> NoError]),
                   block_slot))) @@ m

\* an inclusion that replaces the entry's accumulated errors
IncludeEntry_Overwrite(m, tx, block_slot) ==
    IF tx \in DOMAIN m
    THEN [m EXCEPT ![tx] =
             [s \in DOMAIN @ |->
                 add_transaction([@[s] EXCEPT !.errors = EmptyMap], block_slot)]]
    ELSE m

\* main.rs:108-110: if let Some(mut info) = map_of_infos.get_mut(signature)
\* { info.add_transaction(..) }: nothing happens for a signature without entry
IncludeEntry(m, tx, block_slot) ==
    IF tx \in DOMAIN m
    THEN [m EXCEPT ![tx] =
             [s \in DOMAIN @ |-> add_transaction(@[s], block_slot)]]
    ELSE m

\* main.rs:95: the next (wait_until, block) is taken from the channel
BpRecv ==
    /\ Alive /\ bp_pc = "recv"
    /\ chan # <<>>
    /\ bp_cur' = RecvFrom(chan).item
    /\ chan' = RecvFrom(chan).rest
    /\ bp_pc' = "sleep"
    /\ UNCHANGED <<now, main_vars, map_of_infos, slot_by_errors, slot, bp_i,
                   block_info, ev_vars, blocks_sink, txs_sink,
                   n_blocks, events_counter, banking_errors, recorded,
                   notified, first_seen, started, finished, evicted, early>>

\* main.rs:102: the task resumes when the block's release time has elapsed
BpWake ==
    /\ Alive /\ bp_pc = "sleep"
    /\ SleepUntilDone(bp_cur.wait_until, now)
    /\ bp_pc' = "txs"
    /\ bp_i' = 1
    /\ started' = Append(started, bp_cur.block.id)
    /\ UNCHANGED <<now, main_vars, map_of_infos, slot_by_errors, slot, chan,
                   bp_cur, block_info, ev_vars, blocks_sink, txs_sink,
                   n_blocks, events_counter, banking_errors, recorded,
                   notified, first_seen, finished, evicted, early>>

\* main.rs:107: Signature::try_from(tx.signatures[0].clone()).unwrap() panics
\* on an empty signatures list (index out of bounds) and on a first signature
\* that is not 64 bytes long (unwrap of Err)
SignatureOf(tx) == IF tx = BadSignature THEN "panic" ELSE "ok"

\* main.rs:103-108: one iteration of the loop over block.transactions up to
\* the lookup: a transaction without payload is skipped, one whose signature
\* cannot be read panics the task; get_mut waits for the index, and returns
\* the entry's RefMut, or nothing for a missing entry, which is left missing
BpTx ==
    /\ Alive /\ bp_pc = "txs"
    /\ bp_i <= Len(bp_cur.block.transactions)
    /\ LET tx == bp_cur.block.transactions[bp_i] IN
       IF tx = NoTx
       THEN /\ bp_i' = bp_i + 1
            /\ UNCHANGED <<map_of_infos, first_seen, bp_pc>>
       ELSE IF SignatureOf(tx) = "panic"
       THEN /\ bp_pc' = "panicked"
            /\ bp_i' = bp_i + 1
            /\ UNCHANGED <<map_of_infos, first_seen>>
       ELSE /\ "index" \notin EvGuards(ev_pc)
            /\ first_seen' = [first_seen EXCEPT ![tx] =
                                 IF @ = NoSlot THEN bp_cur.block.slot ELSE @]
            /\ IF tx \in DOMAIN map_of_infos
               THEN /\ bp_pc' = "tx_held"
                    /\ UNCHANGED <<map_of_infos, bp_i>>
               ELSE /\ map_of_infos' =
                          IncludeEntry(map_of_infos, tx, bp_cur.block.slot)
                    /\ bp_i' = bp_i + 1
                    /\ UNCHANGED bp_pc
    /\ UNCHANGED <<now, main_vars, slot_by_errors, slot, chan, bp_cur,
                   block_info, ev_vars, blocks_sink, txs_sink,
                   n_blocks, events_counter, banking_errors, recorded,
                   notified, started, finished, evicted, early>>

\* main.rs:109-110: the entry takes the inclusion under the RefMut, which is
\* dropped at the end of the if-let block
BpTxUpdate ==
    /\ Alive /\ bp_pc = "tx_held"
    /\ map_of_infos' = IncludeEntry(map_of_infos,
                                    bp_cur.block.transactions[bp_i],
                                    bp_cur.block.slot)
    /\ bp_i' = bp_i + 1
    /\ bp_pc' = "txs"
    /\ UNCHANGED <<now, main_vars, slot_by_errors, slot, chan, bp_cur,
                   block_info, ev_vars, blocks_sink, txs_sink,
                   n_blocks, events_counter, banking_errors, recorded,
                   notified, first_seen, started, finished, evicted, early>>

\* main.rs:112-113: slot_by_errors.get(slot) waits for the tally and, for a
\* slot that has an entry, returns its Ref
BpCount ==
    /\ Alive /\ bp_pc = "txs"
    /\ bp_i > Len(bp_cur.block.transactions)
    /\ bp_cur.block.slot \in DOMAIN slot_by_errors
    /\ bp_pc' = "count_held"
    /\ UNCHANGED <<now, main_vars, map_of_infos, slot_by_errors, slot, chan,
                   bp_cur, bp_i, block_info, ev_vars, blocks_sink, txs_sink,
                   n_blocks, events_counter, banking_errors, recorded,
                   notified, first_seen, started, finished, evicted, early>>

\* main.rs:112-118: the tally's count is read (not removed) through the Ref,
\* which is dropped at the end of the statement, or is None for a slot without
\* entry; the BlockInfo is built from it and the cumulative gauge is raised
BpBuild ==
    /\ Alive
    /\ \/ bp_pc = "count_held"
       \/ /\ bp_pc = "txs"
          /\ bp_i > Len(bp_cur.block.transactions)
          /\ bp_cur.block.slot \notin DOMAIN slot_by_errors
    /\ LET banking_stage_error_count ==
               TallyGet(slot_by_errors, bp_cur.block.slot) IN
       /\ block_info' = BlockInfo_new(bp_cur.block, banking_stage_error_count)
       /\ banking_errors' = banking_errors + UnwrapOr0(banking_stage_error_count)
    /\ bp_pc' = "save"
    /\ UNCHANGED <<now, main_vars, map_of_infos, slot_by_errors, slot, chan,
                   bp_cur, bp_i, ev_vars, blocks_sink, txs_sink,
                   n_blocks, events_counter, recorded, notified, first_seen,
                   started, finished, evicted, early>>

\* main.rs:119-121 with postgres.rs:182-229: the BlockInfo is handed to the
\* Storage Sink; the sink accepts it or fails
BpSave(ok) ==
    /\ Alive /\ bp_pc = "save"
    /\ blocks_sink' = Append(blocks_sink,
           [info |-> block_info, id |-> bp_cur.block.id, ok |-> ok])
    /\ bp_pc' = AfterSaveBlock(ok)
    /\ UNCHANGED <<now, main_vars, map_of_infos, slot_by_errors, slot, chan,
                   bp_cur, bp_i, block_info, ev_vars, txs_sink,
                   n_blocks, events_counter, banking_errors, recorded,
                   notified, first_seen, started, finished, evicted, early>>

\* main.rs:122: the watermark is overwritten with the block's slot
BpStore ==
    /\ Alive /\ bp_pc = "store"
    /\ slot' = StoreWatermark(slot, bp_cur.block.slot)
    /\ bp_pc' = "remove"
    /\ UNCHANGED <<now, main_vars, map_of_infos, slot_by_errors, chan, bp_cur,
                   bp_i, block_info, ev_vars, blocks_sink, txs_sink,
                   n_blocks, events_counter, banking_errors, recorded,
                   notified, first_seen, started, finished, evicted, early>>

\* main.rs:123: the tally's entry of the block's slot is removed
BpRemove ==
    /\ Alive /\ bp_pc = "remove"
    /\ slot_by_errors' = TallyRemove(slot_by_errors, bp_cur.block.slot)
    /\ finished' = Append(finished, bp_cur.block.id)
    /\ bp_pc' = "recv"
    /\ bp_cur' = NoBlock
    /\ bp_i' = 0
    /\ block_info' = NoInfo
    /\ UNCHANGED <<now, main_vars, map_of_infos, slot, chan, ev_vars,
                   blocks_sink, txs_sink, n_blocks, events_counter,
                   banking_errors, recorded, notified, first_seen, started,
                   evicted, early>>

\* ------------------------------------------------- transaction-infos saver
\* postgres.rs:258: slot_map.keys().next().cloned().unwrap_or_default(): the
\* smallest key of the entry's slot map, 0 for an empty one
FirstSlot(slot_map) ==
    IF DOMAIN slot_map = {} THEN 0 ELSE FirstKey(slot_map)

\* a lag test that also takes the entry exactly 300 slots behind
ShouldEvict_Inclusive(wm, first_slot) ==
    ~ULess(wm, WrappingAdd(first_slot, LagWindow))

\* postgres.rs:259: slot > first_slot + 300 in u64, as a build without
\* overflow checks computes it: the sum is taken modulo 2^64
ShouldEvict(wm, first_slot) ==
    ULess(WrappingAdd(first_slot, LagWindow), wm)

\* postgres.rs:259 in a build with overflow checks: first_slot + 300 panics
\* when it passes 2^64
LagSumPanics(first_slot, overflow_checks) ==
    overflow_checks /\ AddOverflows(first_slot, LagWindow)

\* the places the iterator of postgres.rs:256 has to pass: those of the keys
\* in the index and those where the event loop may still insert one
ScanPlaces == Sigs \cup DOMAIN map_of_infos

\* postgres.rs:272: data.chunks(8)
RECURSIVE Chunks(_, _)
Chunks(s, n) ==
    IF Len(s) = 0 THEN <<>>
    ELSE IF Len(s) <= n THEN <<s>>
    ELSE <<SubSeq(s, 1, n)>> \o Chunks(SubSeq(s, n + 1, Len(s)), n)

\* postgres.rs:137,167,169 and 277: save_banking_transaction_results unwraps
\* every sink result and the saver unwraps its result: a failed copy panics
\* the saver task
AfterSaveBatch(ok, more) ==
    IF ~ok THEN "panicked" ELSE IF more THEN "save" ELSE "sleep"

\* postgres.rs:253-254: the sleep of 60 s ends and the watermark is loaded once
EvWake ==
    /\ Alive /\ ev_pc = "sleep"
    /\ now >= ev_wake
    /\ ev_slot' = slot
    /\ ev_pc' = "scan"
    /\ UNCHANGED <<now, main_vars, map_of_infos, slot_by_errors, slot, chan,
                   bp_vars, ev_wake, scanned, txs_to_store, ev_i, data,
                   batches_left, blocks_sink, txs_sink, n_blocks,
                   events_counter, banking_errors, recorded, notified,
                   first_seen, started, finished, evicted, early>>

\* postgres.rs:256: the iterator enters the next shard, waiting for the index
\* and taking the shard's guard.  DashMap's iterator goes shard by shard in the
\* order of the keys' hashes, which differs from run to run, and holds no lock
\* between shards.
EvIterNext ==
    /\ Alive /\ ev_pc = "scan"
    /\ ScanPlaces \ scanned # {}
    /\ "index" \notin BpGuards(bp_pc)
    /\ ev_pc' = "visit"
    /\ UNCHANGED <<now, main_vars, map_of_infos, slot_by_errors, slot, chan,
                   bp_vars, ev_wake, ev_slot, scanned, txs_to_store, ev_i,
                   data, batches_left, blocks_sink, txs_sink, n_blocks,
                   events_counter, banking_errors, recorded, notified,
                   first_seen, started, finished, evicted, early>>

\* postgres.rs:256-262: under the shard's guard the iterator passes the place
\* of a key k, and the guard is dropped: any key not yet passed may come next,
\* and a key inserted at a place already passed is missed.  A key found there
\* is pushed when its first slot lags; whether an overflowing sum wraps or
\* panics is the build's choice.
EvVisit(overflow_checks) ==
    /\ Alive /\ ev_pc = "visit"
    /\ \E k \in ScanPlaces \ scanned :
          IF k \notin DOMAIN map_of_infos
          THEN /\ scanned' = scanned \cup {k}
               /\ ev_pc' = "scan"
               /\ UNCHANGED txs_to_store
          ELSE LET first_slot == FirstSlot(map_of_infos[k]) IN
               IF LagSumPanics(first_slot, overflow_checks)
               THEN /\ ev_pc' = "panicked"
                    /\ UNCHANGED <<scanned, txs_to_store>>
               ELSE /\ scanned' = scanned \cup {k}
                    /\ txs_to_store' =
                           IF ShouldEvict(ev_slot, first_slot)
                           THEN Append(txs_to_store, k) ELSE txs_to_store
                    /\ ev_pc' = "scan"
    /\ UNCHANGED <<now, main_vars, map_of_infos, slot_by_errors, slot, chan,
                   bp_vars, ev_wake, ev_slot, ev_i, data, batches_left,
                   blocks_sink, txs_sink, n_blocks, events_counter,
                   banking_errors, recorded, notified, first_seen, started,
                   finished, evicted, early>>

\* postgres.rs:262-264: the iterator is exhausted; with no key pushed the loop
\* goes back to sleep
EvScan ==
    /\ Alive /\ ev_pc = "scan"
    /\ ScanPlaces \subseteq scanned
    /\ scanned' = {}
    /\ IF txs_to_store = <<>>
       THEN /\ ev_pc' = "sleep"
            /\ ev_wake' = now + SaverPeriodSecs
            /\ ev_slot' = 0
            /\ UNCHANGED ev_i
       ELSE /\ ev_pc' = "remove"
            /\ ev_i' = 1
            /\ UNCHANGED <<ev_wake, ev_slot>>
    /\ UNCHANGED <<now, main_vars, map_of_infos, slot_by_errors, slot, chan,
                   bp_vars, txs_to_store, data, batches_left, blocks_sink,
                   txs_sink, n_blocks, events_counter, banking_errors,
                   recorded, notified, first_seen, started, finished, evicted,
                   early>>

\* postgres.rs:266-271: map_of_transaction.remove(key) for the next key pushed
\* waits for the index (filter_map passes over a key that is gone); every
\* TransactionInfo of the removed slot map joins data, in the order of the
\* slots
EvRemoveKey ==
    /\ Alive /\ ev_pc = "remove"
    /\ ev_i <= Len(txs_to_store)
    /\ "index" \notin BpGuards(bp_pc)
    /\ LET key == txs_to_store[ev_i] IN
       IF key \in DOMAIN map_of_infos
       THEN LET infos == InfosOf(map_of_infos[key]) IN
            /\ map_of_infos' =
                  [k \in DOMAIN map_of_infos \ {key} |-> map_of_infos[k]]
            /\ data' = data \o infos
            /\ evicted' = evicted \o
                   [i \in DOMAIN infos |->
                       [info |-> infos[i], wm |-> ev_slot,
                        first |-> FirstSlot(map_of_infos[key])]]
            /\ notified' = [notified EXCEPT ![key] = 0]
       ELSE UNCHANGED <<map_of_infos, data, evicted, notified>>
    /\ ev_i' = ev_i + 1
    /\ UNCHANGED <<now, main_vars, slot_by_errors, slot, chan, bp_vars, ev_pc,
                   ev_wake, ev_slot, scanned, txs_to_store, batches_left,
                   blocks_sink, txs_sink, n_blocks, events_counter,
                   banking_errors, recorded, first_seen, started, finished,
                   early>>

\* postgres.rs:271-272: data is collected and cut into batches of 8
EvChunk ==
    /\ Alive /\ ev_pc = "remove"
    /\ ev_i > Len(txs_to_store)
    /\ batches_left' = Chunks(data, BatchSize)
    /\ IF batches_left' = <<>>
       THEN /\ ev_pc' = "sleep"
            /\ ev_wake' = now + SaverPeriodSecs
       ELSE /\ ev_pc' = "save"
            /\ UNCHANGED ev_wake
    /\ txs_to_store' = <<>>
    /\ ev_i' = 0
    /\ data' = <<>>
    /\ ev_slot' = 0
    /\ UNCHANGED <<now, main_vars, map_of_infos, slot_by_errors, slot, chan,
                   bp_vars, scanned, blocks_sink, txs_sink, n_blocks,
                   events_counter, banking_errors, recorded, notified,
                   first_seen, started, finished, evicted, early>>

\* postgres.rs:273-278 with postgres.rs:120-171: the next batch is handed to
\* the Storage Sink; the sink accepts it or fails
EvSaveBatch(ok) ==
    /\ Alive /\ ev_pc = "save"
    /\ batches_left # <<>>
    /\ txs_sink' = Append(txs_sink, [batch |-> Head(batches_left), ok |-> ok])
    /\ ev_pc' = AfterSaveBatch(ok, Tail(batches_left) # <<>>)
    /\ batches_left' = Tail(batches_left)
    /\ ev_wake' = IF ev_pc' = "sleep" THEN now + SaverPeriodSecs ELSE ev_wake
    /\ UNCHANGED <<now, main_vars, map_of_infos, slot_by_errors, slot, chan,
                   bp_vars, ev_slot, scanned, txs_to_store, ev_i, data,
                   blocks_sink, n_blocks, events_counter, banking_errors, recorded,
                   notified, first_seen, started, finished, evicted, early>>

\* ------------------------------------------------------------ specification
\* main.rs:53-89: the state after construction
Init ==
    /\ now = 0
    /\ main_pc = "next"
    /\ transaction = NoNotif
    /\ map_of_infos = EmptyMap
    /\ slot_by_errors = EmptyMap
    /\ slot = 0
    /\ chan = <<>>
    /\ bp_pc = "recv"
    /\ bp_cur = NoBlock
    /\ bp_i = 0
    /\ block_info = NoInfo
    /\ ev_pc = "sleep"
    /\ ev_wake = SaverPeriodSecs
    /\ ev_slot = 0
    /\ scanned = {}
    /\ txs_to_store = <<>>
    /\ ev_i = 0
    /\ data = <<>>
    /\ batches_left = <<>>
    /\ blocks_sink = <<>>
    /\ txs_sink = <<>>
    /\ n_blocks = 0
    /\ events_counter = 0
    /\ banking_errors = 0
    /\ recorded = [s \in Slots |-> 0]
    /\ notified = [g \in Sigs |-> 0]
    /\ first_seen = [g \in Sigs |-> NoSlot]
    /\ started = <<>>
    /\ finished = <<>>
    /\ evicted = <<>>
    /\ early = [s \in Slots |-> 0]

EventLoop ==
    \/ SkipMessage
    \/ StreamEnd
    \/ \E sig \in Sigs, s \in Slots, e \in {NoError} \cup Causes :
          RecvNotification(sig, s, e)
    \/ UpsertNotification
    \/ \E s \in Slots, txs \in TxSeqs : RecvBlock(s, txs)

BlockProcessor ==
    \/ BpRecv
    \/ BpWake
    \/ BpTx
    \/ BpTxUpdate
    \/ BpCount
    \/ BpBuild
    \/ \E ok \in BOOLEAN : BpSave(ok)
    \/ BpStore
    \/ BpRemove

Saver ==
    \/ EvWake
    \/ EvIterNext
    \/ \E overflow_checks \in BOOLEAN : EvVisit(overflow_checks)
    \/ EvScan
    \/ EvRemoveKey
    \/ EvChunk
    \/ \E ok \in BOOLEAN : EvSaveBatch(ok)

Next == EventLoop \/ BlockProcessor \/ Saver \/ Tick

Spec == Init /\ [][Next]_vars

\* the tasks run under tokio's fair scheduler and the clock keeps advancing;
\* whether the sink accepts a record is not up to the scheduler
FairSpec ==
    /\ Spec
    /\ WF_vars(UpsertNotification)
    /\ WF_vars(BlockProcessor)
    /\ WF_vars(Saver)
    /\ WF_vars(Tick)

\* ------------------------------------------- the saver on a populated index
\* one notification of cause 1 for signature g and slot first, as an entry
EvictEntry(g, first) ==
    add_notification(
        TransactionInfo_new([signature |-> g, slot |-> first, error |-> 1]),
        [signature |-> g, slot |-> first, error |-> 1])

\* A state of the running program before the saver's first tick: one empty
\* block of slot wm was received at 0 and processed at 30 s, and then the
\* notifications that left `index` behind arrived, one for each signature,
\* count[s] of them for slot s.
SaverStart(wm, index, count) ==
    LET blk == [id |-> 1, slot |-> wm, transactions |-> <<>>, arrived |-> 0]
    IN
    /\ now = HoldSecs
    /\ main_pc = "next"
    /\ transaction = NoNotif
    /\ map_of_infos = index
    /\ recorded = count
    /\ slot_by_errors = [s \in {x \in DOMAIN count : count[x] > 0} |-> count[s]]
    /\ slot = wm
    /\ chan = <<>>
    /\ bp_pc = "recv"
    /\ bp_cur = NoBlock
    /\ bp_i = 0
    /\ block_info = NoInfo
    /\ ev_pc = "sleep"
    /\ ev_wake = SaverPeriodSecs
    /\ ev_slot = 0
    /\ scanned = {}
    /\ txs_to_store = <<>>
    /\ ev_i = 0
    /\ data = <<>>
    /\ batches_left = <<>>
    /\ blocks_sink = <<[info |-> BlockInfo_new(blk, NoCount), id |-> 1,
                        ok |-> TRUE]>>
    /\ txs_sink = <<>>
    /\ n_blocks = 1
    /\ events_counter = SumOver(count, DOMAIN count)
    /\ banking_errors = 0
    /\ notified = [g \in DOMAIN index |-> 1]
    /\ first_seen = [g \in DOMAIN index |-> FirstKey(index[g])]
    /\ started = <<1>>
    /\ finished = <<1>>
    /\ evicted = <<>>
    /\ early = [s \in DOMAIN count |-> IF s = wm THEN 0 ELSE count[s]]

\* n signatures got one notification each, the first `old` of them for slot 0
\* and the others for slot wm.
InitEvict ==
    \E n \in 0..MaxEntries, old \in 0..MaxEntries, wm \in Slots :
       /\ old <= n
       /\ LET first == [g \in 1..n |-> IF g <= old THEN 0 ELSE wm]
          IN SaverStart(wm,
                        [g \in 1..n |-> SlotMapOf(EvictEntry(g, first[g]))],
                        [s \in Slots |->
                            Cardinality({g \in 1..n : first[g] = s})])

NextEvict == Saver \/ Tick

EvictSpec == InitEvict /\ [][NextEvict]_vars

\* ------------------------------------- the saver on the lag-window scenario
\* Scenario C of the specification: the watermark and the two
\* first_notification_slots it names, and the slot exactly LagWindow behind.
ScenarioC == [watermark |-> 1000, first |-> 650, second |-> 699]
ScenarioSlots ==
    {ScenarioC.first, ScenarioC.second, ScenarioC.watermark - LagWindow}

\* Up to MaxScenarioEntries signatures got one notification each, for slots
\* around the lag window, none of which had a block; the watermark is 1000.
InitScenario ==
    \E n \in 0..MaxScenarioEntries :
    \E first \in [1..n -> ScenarioSlots] :
       SaverStart(ScenarioC.watermark,
                  [g \in 1..n |-> SlotMapOf(EvictEntry(g, first[g]))],
                  [s \in ScenarioSlots |->
                      Cardinality({g \in 1..n : first[g] = s})])

ScenarioSpec == InitScenario /\ [][NextEvict]_vars

\* --------------------------------------- the saver near the top of the u64s
\* 2^64 - 101, a slot within LagWindow of the largest u64, and the watermarks
\* below and above the 199 its lag sum wraps to
TopSlot == -101
WrapWatermarks == {5, ScenarioC.watermark}

\* Up to MaxWrapEntries signatures got one notification each, for slot 0 or
\* for the slot near the top; the watermark is small.
InitWrap ==
    \E n \in 0..MaxWrapEntries, wm \in WrapWatermarks :
    \E first \in [1..n -> {0, TopSlot}] :
       SaverStart(wm,
                  [g \in 1..n |-> SlotMapOf(EvictEntry(g, first[g]))],
                  [s \in {0, TopSlot} |->
                      Cardinality({g \in 1..n : first[g] = s})])

WrapSpec == InitWrap /\ [][NextEvict]_vars

\* ================================================================== claims
Range(s) == {s[i] : i \in DOMAIN s}
Processing ==
    bp_pc \in {"txs", "tx_held", "count_held", "save", "store", "remove"}

\* the tally's count of a slot, 0 when the slot has no entry
TallyCount(s) == UnwrapOr0(TallyGet(slot_by_errors, s))

RECURSIVE CountedFrom(_, _)
\* sum of banking_stage_errors over the BlockInfos of slot s among sink[1..]
CountedFrom(sink, s) ==
    IF sink = <<>> THEN 0
    ELSE (IF Head(sink).info.slot = s
          THEN UnwrapOr0(Head(sink).info.banking_stage_errors) ELSE 0)
         + CountedFrom(Tail(sink), s)

\* the TransactionInfo of signature k's entry (the one main.rs keeps: the
\* entry's first slot is its first_notification_slot)
Info(k) == map_of_infos[k][FirstKey(map_of_infos[k])]

\* watermark - first_slot > 300 between the u64 values themselves
LagExceeded(wm, first_slot) ==
    IF (wm < 0) = (first_slot < 0) THEN wm - first_slot > LagWindow
    ELSE wm < 0

\* how many save_block calls were made for block id b
SinkCount(b) == Cardinality({i \in DOMAIN blocks_sink : blocks_sink[i].id = b})

\* C1: the Slot Watermark never decreases, whatever the order of the blocks'
\* slots: no step takes it to a smaller value.
C1_WatermarkMonotone == [][slot' >= slot]_vars

\* C2: the Block Processor's read-and-remove of the tally entry of a slot is
\* atomic with respect to record_error: whenever the processor is outside the
\* handling of a block, every error recorded for a slot is either in the count
\* of a BlockInfo built for that slot or still in the tally.
C2_TakeAtomic ==
    bp_pc \in {"recv", "sleep"} =>
        \A s \in Slots : recorded[s] = CountedFrom(blocks_sink, s) + TallyCount(s)

\* C3: blocks are processed in the order received, one at a time, and none
\* before its arrival time plus the hold: the k-th processing started is that
\* of the k-th block received, a processing starts only after the previous one
\* completed, and while a block is processed its release time has passed.
C3_FifoAfterHold ==
    /\ \A k \in DOMAIN started : started[k] = k
    /\ Len(finished) <= Len(started)
    /\ Len(started) <= Len(finished) + 1
    /\ \A k \in DOMAIN finished : finished[k] = started[k]
    /\ Processing <=> Len(started) = Len(finished) + 1 /\ bp_pc # "panicked"
    /\ Processing => /\ bp_cur.block.id = started[Len(started)]
                     /\ now >= bp_cur.block.arrived + HoldSecs

\* C3's case: block A is being processed while block B, received after it,
\* waits in the channel with its release time already elapsed.
C3_Witness ==
    /\ Processing
    /\ chan # <<>>
    /\ Head(chan).block.id > bp_cur.block.id
    /\ now >= Head(chan).wait_until

\* C4: every block received is processed exactly once: under fair scheduling
\* and for as long as the stream lasts it is eventually handed to the Storage
\* Sink as one BlockInfo, also when the persistence of an earlier block
\* failed, and never as two.
C4_EveryBlockProcessedOnce ==
    /\ \A b \in 1..MaxBlocks :
           (n_blocks >= b) ~> (SinkCount(b) = 1 \/ main_pc = "ended")
    /\ [](\A b \in 1..MaxBlocks : SinkCount(b) <= 1)

\* C5: a failed persistence of one block's BlockInfo does not stop the Block
\* Processor: after a failed save_block the processor is still running, the
\* block is handed to the sink only that once, and the processor goes on to
\* store the block's slot in the watermark and complete the block.
C5_SaveFailureTolerated ==
    \A i \in DOMAIN blocks_sink :
        ~blocks_sink[i].ok =>
            /\ bp_pc # "panicked"
            /\ SinkCount(blocks_sink[i].id) = 1
            /\ \/ blocks_sink[i].id \in Range(finished)
               \/ /\ bp_pc \in {"store", "remove"}
                  /\ bp_cur.block.id = blocks_sink[i].id

\* C6: a failed persistence of one batch does not end the saver: the batches
\* left of the tick are still attempted and later ticks still run (the task
\* is alive), and the batch's entries are not put back into the index (an
\* entry of the index is always one the Notification Handler upserted).
C6_BatchFailureTolerated ==
    \A i \in DOMAIN txs_sink :
        ~txs_sink[i].ok =>
            /\ ev_pc # "panicked"
            /\ \A j \in DOMAIN txs_sink[i].batch :
                  txs_sink[i].batch[j].signature \in DOMAIN map_of_infos =>
                      notified[txs_sink[i].batch[j].signature] >= 1

\* C7: the saver removes an entry only when the watermark it loaded at the
\* start of the tick exceeds the entry's first_notification_slot by more than
\* 300: every step that takes a key out of the index is a removal step of the
\* saver, for an entry with ev_slot - first_notification_slot > 300 (the
\* entry's first slot is its first_notification_slot).
C7_EvictOnlyBeyondLag ==
    [][\A k \in DOMAIN map_of_infos :
          k \notin DOMAIN map_of_infos' =>
              /\ ev_pc = "remove"
              /\ LagExceeded(ev_slot, FirstSlot(map_of_infos[k]))]_vars

\* how many times the entry x was handed to the sink in a batch
HandedCount(x) ==
    Cardinality({<<b, j>> \in (DOMAIN txs_sink) \X (1..BatchSize) :
                    j <= Len(txs_sink[b].batch) /\ txs_sink[b].batch[j] = x})

\* C8: once a tick's eviction is over (the saver sleeps again or has ended),
\* every entry it removed is absent from the index and was handed to the
\* Storage Sink in exactly one batch.
C8_EvictedExactlyOnceInBatch ==
    ev_pc \in {"sleep", "panicked"} =>
        \A i \in DOMAIN evicted :
            /\ evicted[i].info.signature \notin DOMAIN map_of_infos
            /\ HandedCount(evicted[i].info) = 1

\* C9: for every entry of the index, the total of its errors' occurrence
\* counts equals the number of notifications upserted for its signature since
\* the entry was created.
C9_ErrorsCountNotifications ==
    \A k \in DOMAIN map_of_infos :
        ErrorTotal(Info(k).errors) = notified[k]

\* C9's case: an entry that has received its creating notification and at
\* least one later one.
C9_Witness ==
    \E k \in DOMAIN map_of_infos :
        notified[k] >= 2 /\ ErrorTotal(Info(k).errors) >= 2

\* C10 as stated: first_notification_slot of a signature's entry is the slot
\* of the first event (notification or block inclusion) observed for that
\* signature.
C10_FirstSlotIsFirstEvent ==
    \A k \in DOMAIN map_of_infos :
        Info(k).first_notification_slot = first_seen[k]

\* C10 amended: first_notification_slot is set when the entry is created, to
\* the slot of the notification that creates it, and no step changes it while
\* the entry stays in the index.
C10_FirstSlotFixedAtCreation ==
    [][\A k \in DOMAIN map_of_infos' :
          IF k \in DOMAIN map_of_infos
          THEN Info(k)'.first_notification_slot =
                   Info(k).first_notification_slot
          ELSE /\ main_pc = "upsert"
               /\ transaction.signature = k
               /\ Info(k)'.first_notification_slot = transaction.slot]_vars

\* C10's case: an entry that, after its creation, took a notification and a
\* block inclusion of other slots than its first_notification_slot.
C10_Witness ==
    \E k \in DOMAIN map_of_infos :
        LET info == Info(k) IN
        /\ info.is_executed
        /\ info.processed_slot # info.first_notification_slot
        /\ \E key \in DOMAIN info.errors : key[2] # info.first_notification_slot

\* C11 as stated: a signature has an index entry if and only if a notification
\* or an inclusion has been observed for it: once the handler is between two
\* messages and nothing has been evicted, every signature a notification was
\* received for or a processed block contained has an entry.
C11_EntryIffObserved ==
    (main_pc = "next" /\ evicted = <<>>) =>
        \A g \in Sigs : g \in DOMAIN map_of_infos <=> first_seen[g] # NoSlot

\* C11 amended: a signature has an index entry if and only if a notification
\* with a cause has been upserted for it since its last eviction; processing
\* a block that contains a signature without entry creates nothing.
C11_EntryIffNotified ==
    \A g \in Sigs : g \in DOMAIN map_of_infos <=> notified[g] >= 1

\* C11's case: a processed block contained a signature that never had a
\* notification, and the signature has no entry.
C11_Witness ==
    \E g \in Sigs :
        /\ first_seen[g] # NoSlot
        /\ main_pc = "next" /\ evicted = <<>> /\ events_counter = 0
        /\ g \notin DOMAIN map_of_infos
        /\ finished # <<>>

\* the Block Processor has looked up signature g for the block it is processing
IncludedByCurrent(g) ==
    /\ Processing
    /\ \E j \in 1..(bp_i - 1) :
           j <= Len(bp_cur.block.transactions) /\ bp_cur.block.transactions[j] = g

\* C12 as stated: when the handler's upsert of a signature completes while the
\* Block Processor is processing a block in which it has already handled that
\* signature, the resulting entry reflects both the notification and the
\* inclusion, whichever of the two ran first.
C12_BothReflected ==
    [][\A g \in Sigs :
          (main_pc = "upsert" /\ main_pc' = "next"
           /\ transaction.signature = g /\ IncludedByCurrent(g)) =>
              /\ g \in DOMAIN map_of_infos'
              /\ Info(g)'.is_executed
              /\ ErrorTotal(Info(g)'.errors) >= 1]_vars

\* C12 amended: for a signature that has an index entry, no step loses an
\* update while the entry stays in the index: the occurrence counts never
\* shrink and the execution flag is never cleared; the handler's upsert adds
\* one occurrence and leaves the inclusion fields alone; the Block Processor's
\* inclusion sets the flag and processed_slot and leaves the errors alone.
C12_NoLostUpdate ==
    [][\A k \in DOMAIN map_of_infos \cap DOMAIN map_of_infos' :
          LET old == Info(k)
              new == Info(k)'
          IN
          /\ old.is_executed => new.is_executed
          /\ \A key \in DOMAIN old.errors :
                 key \in DOMAIN new.errors /\ new.errors[key] >= old.errors[key]
          /\ (main_pc = "upsert" /\ main_pc' = "next" /\ transaction.signature = k) =>
                 /\ ErrorTotal(new.errors) = ErrorTotal(old.errors) + 1
                 /\ new.is_executed = old.is_executed
                 /\ new.processed_slot = old.processed_slot
          /\ (bp_pc = "tx_held" /\ bp_i' = bp_i + 1
              /\ bp_cur.block.transactions[bp_i] = k) =>
                 /\ new.is_executed
                 /\ new.processed_slot = bp_cur.block.slot
                 /\ new.errors = old.errors]_vars

\* C12's case: the handler is between the tally update and the upsert of a
\* notification for a signature whose entry already holds an earlier
\* notification and the inclusion of the block being processed.
C12_Witness ==
    /\ main_pc = "upsert"
    /\ transaction.signature \in DOMAIN map_of_infos
    /\ IncludedByCurrent(transaction.signature)
    /\ Info(transaction.signature).is_executed
    /\ Info(transaction.signature).processed_slot = bp_cur.block.slot
    /\ ErrorTotal(Info(transaction.signature).errors) >= 1

\* how many of the blocks received so far are of slot s
BlocksOfSlot(s) ==
    Cardinality({i \in DOMAIN chan : chan[i].block.slot = s})
    + Cardinality({i \in DOMAIN blocks_sink : blocks_sink[i].info.slot = s})
    + (IF bp_cur.block.id # 0 /\ bp_cur.block.slot = s
          /\ SinkCount(bp_cur.block.id) = 0
       THEN 1 ELSE 0)

\* the BlockInfos built so far: those handed to the sink and the one at hand
BuiltInfos ==
    {blocks_sink[i].info : i \in DOMAIN blocks_sink}
    \cup (IF bp_pc = "save" THEN {block_info} ELSE {})

\* C13: every notification for slot s received before the release deadline of
\* the block of slot s is counted in that block's BlockInfo: for a slot with
\* one block, banking_stage_errors of its BlockInfo is at least the number of
\* notifications for the slot received before any release time of the slot.
C13_EarlyNotificationsCounted ==
    \A info \in BuiltInfos :
        BlocksOfSlot(info.slot) = 1 =>
            UnwrapOr0(info.banking_stage_errors) >= early[info.slot]

\* C13's case (Scenario A): a BlockInfo handed to the sink counts the one
\* notification received for its slot before the release deadline.
C13_Witness ==
    \E i \in DOMAIN blocks_sink :
        LET info == blocks_sink[i].info IN
        /\ BlocksOfSlot(info.slot) = 1
        /\ early[info.slot] = 1
        /\ info.banking_stage_errors = 1

\* C14 as stated: a notification for slot s received after the release
\* deadline of the block of slot s is not reflected in that block's BlockInfo:
\* for a slot with one block, banking_stage_errors counts no more than the
\* notifications received before the deadline, and is absent with none.
C14_LateNotCounted ==
    \A info \in BuiltInfos :
        BlocksOfSlot(info.slot) = 1 =>
            /\ UnwrapOr0(info.banking_stage_errors) <= early[info.slot]
            /\ early[info.slot] = 0 => info.banking_stage_errors = NoCount

\* C14 amended: what a BlockInfo counts is fixed when the Block Processor
\* reads the tally: for a slot with one block the count is then the number of
\* notifications received for the slot so far (absent with none), also those
\* received after the release deadline, and no notification received later
\* changes the BlockInfo at hand or one already handed to the sink.
C14_CountFixedAtRead ==
    [][/\ (bp_pc \in {"txs", "count_held"} /\ bp_pc' = "save"
           /\ BlocksOfSlot(bp_cur.block.slot) = 1) =>
              /\ UnwrapOr0(block_info'.banking_stage_errors) =
                     recorded[bp_cur.block.slot]
              /\ recorded[bp_cur.block.slot] = 0 =>
                     block_info'.banking_stage_errors = NoCount
       /\ events_counter' # events_counter =>
              /\ block_info' = block_info
              /\ blocks_sink' = blocks_sink
       /\ Len(blocks_sink') > Len(blocks_sink) =>
              /\ SubSeq(blocks_sink', 1, Len(blocks_sink)) = blocks_sink
              /\ blocks_sink'[Len(blocks_sink')].info = block_info]_vars

\* C14's case (Scenario B): a BlockInfo handed to the sink with no count,
\* for a slot with one block and a notification received after the read.
C14_Witness ==
    \E i \in DOMAIN blocks_sink :
        LET info == blocks_sink[i].info IN
        /\ BlocksOfSlot(info.slot) = 1
        /\ info.banking_stage_errors = NoCount
        /\ recorded[info.slot] >= 1

\* the saver's first tick has finished its scan and its removals
FirstTickOver ==
    \/ ev_pc \in {"save", "panicked"}
    \/ ev_pc = "sleep" /\ ev_wake > SaverPeriodSecs

\* the entries the saver removed so far
EvictedInfos == {evicted[i].info : i \in DOMAIN evicted}

\* C15 as stated: with watermark 1000 and lag window 300, a tick retains an
\* entry whose first_notification_slot is 650 and evicts one whose
\* first_notification_slot is 699.
C15_Retains650Evicts699 ==
    (FirstTickOver /\ slot = ScenarioC.watermark) =>
        \A g \in DOMAIN first_seen :
            /\ first_seen[g] = ScenarioC.first => g \in DOMAIN map_of_infos
            /\ first_seen[g] = ScenarioC.second => g \notin DOMAIN map_of_infos

\* C15 amended: with watermark 1000 and lag window 300, a tick retains an
\* entry whose first_notification_slot is 700 and evicts the entries whose
\* first_notification_slot is 699 or 650.
C15_Retains700Evicts699 ==
    (FirstTickOver /\ slot = ScenarioC.watermark) =>
        \A g \in DOMAIN first_seen :
            IF first_seen[g] >= ScenarioC.watermark - LagWindow
            THEN /\ g \in DOMAIN map_of_infos
                 /\ map_of_infos[g] = SlotMapOf(EvictEntry(g, first_seen[g]))
            ELSE /\ g \notin DOMAIN map_of_infos
                 /\ EvictEntry(g, first_seen[g]) \in EvictedInfos

\* C15's case: a tick at watermark 1000 over an index holding entries of
\* first_notification_slot 650, 699 and 700 has removed the first two and
\* kept the third.
C15_Witness ==
    /\ FirstTickOver /\ slot = ScenarioC.watermark
    /\ \E a, b, c \in DOMAIN first_seen :
          /\ first_seen[a] = ScenarioC.first /\ a \notin DOMAIN map_of_infos
          /\ first_seen[b] = ScenarioC.second /\ b \notin DOMAIN map_of_infos
          /\ first_seen[c] = ScenarioC.watermark - LagWindow
          /\ c \in DOMAIN map_of_infos

\* the batches handed to the sink so far, joined in call order
RECURSIVE Handed(_)
Handed(sink) ==
    IF sink = <<>> THEN <<>> ELSE Head(sink).batch \o Handed(Tail(sink))

\* ceil(n / BatchSize)
BatchesFor(n) == (n + BatchSize - 1) \div BatchSize

\* C16: no batch handed to the sink holds more than 8 entries (or none), and
\* once the tick is over (the saver sleeps again or has ended) the n entries
\* it removed went out in ceil(n/8) calls, in removal order, all of 8 but
\* possibly the last; a tick that removed nothing made no call.
C16_BatchesOfEight ==
    /\ \A i \in DOMAIN txs_sink :
           Len(txs_sink[i].batch) >= 1 /\ Len(txs_sink[i].batch) <= BatchSize
    /\ (ev_pc = "panicked" \/ (ev_pc = "sleep" /\ ev_wake > SaverPeriodSecs)) =>
           /\ Len(txs_sink) = BatchesFor(Len(evicted))
           /\ \A i \in DOMAIN txs_sink :
                  i < Len(txs_sink) => Len(txs_sink[i].batch) = BatchSize
           /\ Handed(txs_sink) = [i \in DOMAIN evicted |-> evicted[i].info]

\* signature g was handed to the sink in some batch
HandedOff(g) ==
    \E i \in DOMAIN txs_sink : \E j \in 1..BatchSize :
        j <= Len(txs_sink[i].batch) /\ txs_sink[i].batch[j].signature = g

\* the entry of g holds notifications only and the watermark is more than 300
\* slots ahead of it, with the saver alive and a tick of it still to come
DueForEviction(g) ==
    /\ g \in DOMAIN map_of_infos
    /\ ~Info(g).is_executed
    /\ slot > Info(g).first_notification_slot + LagWindow
    /\ Alive /\ ev_pc = "sleep" /\ now <= ev_wake /\ ev_wake <= LastInstant

\* C17: a signature with notifications only is eventually evicted: once the
\* watermark exceeds its first_notification_slot by more than 300 with a tick
\* of the saver still to come, the entry is eventually handed to the sink
\* (with is_executed = false), unless it is included in a block meanwhile or
\* the process or the saver has ended.
C17_ErrorOnlyEventuallyEvicted ==
    /\ \A g \in Sigs :
           DueForEviction(g) ~>
               \/ HandedOff(g)
               \/ g \in DOMAIN map_of_infos /\ Info(g).is_executed
               \/ ~Alive
               \/ ev_pc = "panicked"
    /\ [](\A i \in DOMAIN evicted :
             evicted[i].info.is_executed => evicted[i].info.processed_slot # NoSlot)

\* a block of slot s has been processed to the end
SlotFinished(s) ==
    \E i \in DOMAIN blocks_sink :
        blocks_sink[i].info.slot = s /\ blocks_sink[i].id \in Range(finished)

\* C18: the tally keeps no entry for a slot whose block has been processed:
\* an entry of slot s that exists after a block of slot s was processed to
\* the end (created by a notification arriving after it) is eventually
\* removed, as long as the process and the Block Processor are running.
C18_TallyEntryEventuallyRemoved ==
    \A s \in Slots :
        (s \in DOMAIN slot_by_errors /\ SlotFinished(s)) ~>
            \/ s \notin DOMAIN slot_by_errors
            \/ ~Alive
            \/ bp_pc = "panicked"

\* the step is the handler taking up a notification that has a cause
TakesCause ==
    /\ main_pc = "next" /\ main_pc' = "upsert"
    /\ transaction'.error \in Causes
    /\ events_counter' = events_counter + 1

\* C19: a notification without an error cause changes nothing: every step
\* that raises the event counter or a tally count, or starts an upsert, is
\* the handler taking up a notification that has a cause, and takes all of
\* these together; the upsert that follows is of that notification; and such
\* steps leave the Delay Queue and the watermark alone.
C19_CauselessChangesNothing ==
    [][/\ events_counter' # events_counter => TakesCause
       /\ (\E s \in Slots : TallyCount(s)' > TallyCount(s)) => TakesCause
       /\ (main_pc = "next" /\ main_pc' = "upsert") =>
              TakesCause /\ chan' = chan /\ slot' = slot
                         /\ map_of_infos' = map_of_infos
       /\ main_pc = "upsert" => transaction.error \in Causes]_vars

\* C19's case: the handler, between two messages, with a non-empty tally,
\* index and Delay Queue, a raised watermark and counter: the state in which
\* a notification without cause is taken, and, as that changes nothing, also
\* the state it leaves.
C19_Witness ==
    /\ Alive /\ main_pc = "next"
    /\ ENABLED RecvNotification(1, 0, NoError)
    /\ DOMAIN slot_by_errors # {}
    /\ DOMAIN map_of_infos # {}
    /\ chan # <<>>
    /\ slot > 0
    /\ events_counter > 0

\* C20: no task holds a lock on the index or the tally across a suspension
\* point, and the system cannot deadlock:
\*  - a task at an await (the Block Processor at the channel, its sleep or a
\*    sink call, the saver at its sleep or a sink call) holds no guard;
\*  - whenever both are at an await, a handler that is between two messages
\*    can record an error for any slot, and one that has recorded it can
\*    upsert its signature;
\*  - the guard of a map is never held by two tasks, and a task that holds a
\*    guard can always take the step that drops it, so no task waits for a
\*    guard for ever;
\*  - unless every task is at an await, some task can take a step.
C20_HandlerNeverBlocked ==
    Alive =>
        /\ bp_pc \in {"recv", "sleep", "save"} => BpGuards(bp_pc) = {}
        /\ ev_pc \in {"sleep", "save"} => EvGuards(ev_pc) = {}
        /\ (bp_pc \in {"recv", "sleep", "save"} /\ ev_pc \in {"sleep", "save"}) =>
               /\ (main_pc = "next" /\ events_counter < MaxNotifs) =>
                      \A g \in Sigs, s \in Slots :
                         ENABLED RecvNotification(g, s, 1)
               /\ main_pc = "upsert" => ENABLED UpsertNotification
        /\ BpGuards(bp_pc) \cap EvGuards(ev_pc) = {}
        /\ bp_pc = "tx_held" => ENABLED BpTxUpdate
        /\ bp_pc = "count_held" => ENABLED BpBuild
        /\ ev_pc = "visit" => ENABLED EvVisit(FALSE)
        /\ ~AllSuspended =>
               ENABLED (UpsertNotification \/ BlockProcessor \/ Saver)

\* C20's case: the Block Processor, which took the index's guard for the
\* included transaction and the tally's guard for the count of its block, is
\* saving the BlockInfo; the saver, whose iterator took the index's guard, is
\* persisting a batch with the entry that inclusion updated; and the handler
\* has recorded a further error for the block's slot and is about to upsert
\* the signature.
C20_Witness ==
    /\ bp_pc = "save" /\ ev_pc = "save"
    /\ main_pc = "upsert"
    /\ transaction.slot = bp_cur.block.slot
    /\ UnwrapOr0(block_info.banking_stage_errors) >= 1
    /\ TallyCount(bp_cur.block.slot) > UnwrapOr0(block_info.banking_stage_errors)
    /\ \E i \in DOMAIN batches_left[1] :
          /\ batches_left[1][i].is_executed
          /\ batches_left[1][i].processed_slot = bp_cur.block.slot
    /\ ENABLED UpsertNotification

\* sum of banking_stage_errors over the BlockInfos built so far for slot s:
\* those handed to the sink and the one at hand
BuiltCount(s) ==
    CountedFrom(blocks_sink, s)
    + (IF bp_pc = "save" /\ block_info.slot = s
       THEN UnwrapOr0(block_info.banking_stage_errors) ELSE 0)

\* C21: banking-stage errors are never over-counted: the cumulative
\* bankingstage_banking_errors gauge is the sum of banking_stage_errors over
\* the BlockInfos built so far and is at most the event counter, and for each
\* slot the sum over the BlockInfos of that slot is at most the number of
\* notifications received for that slot.
C21_NeverOverCounted ==
    /\ banking_errors <= events_counter
    /\ banking_errors = SumOver([s \in Slots |-> BuiltCount(s)], Slots)
    /\ \A s \in Slots : BuiltCount(s) <= recorded[s]

\* C21's case: two blocks of one slot have been built, the first one counting
\* the notifications received for the slot, and the gauge equals the counter.
C21_Witness ==
    \E i, j \in DOMAIN blocks_sink :
        /\ i < j
        /\ blocks_sink[i].info.slot = blocks_sink[j].info.slot
        /\ UnwrapOr0(blocks_sink[i].info.banking_stage_errors) >= 1
        /\ banking_errors = events_counter
        /\ recorded[blocks_sink[i].info.slot] = events_counter

====
